---- MODULE Spec2Model ----
(***************************************************************************)
(* Duck Hunt (bevy): the Update systems of SimpleGamePlugin as a state     *)
(* machine.                                                                *)
(*                                                                         *)
(* Units.  Time is counted in ticks of 1/TicksPerSec second.  Lengths are  *)
(* counted in micro-pixels (Px(n) is n pixels), speeds in micro-pixels per *)
(* second.  The sine of the elapsed time is kept in thousandths (-1000 ..  *)
(* 1000), rounded to nearest as the f32 sine is rounded to the nearest     *)
(* float.  With these units every product and quotient below is exact.     *)
(*                                                                         *)
(* Scheduling.  The seven systems are added to Update as one tuple without *)
(* .chain(), so a frame runs each of them once in an order the executor    *)
(* picks; their Commands are applied when the schedule ends.               *)
(***************************************************************************)
EXTENDS Integers, Sequences, FiniteSets, TLC

VARIABLES
    elapsed,     \* Time::elapsed(), in ticks
    delta,       \* Time::delta() of the running frame, in ticks
    spawnTimer,  \* the SpawnTimer resource
    world,       \* the duck entities: entity id -> components
    nextId,      \* the id the next spawned entity gets
    commands,    \* the deferred Commands of the running frame
    shots,       \* Events<GameInputEvent> not yet read by handle_shoot_duck
    input,       \* mouse button / cursor of the running frame
    ran,         \* the systems that have run in the running frame
    pc,          \* "first": between frames; "update": inside the Update schedule
    panicked     \* a system has panicked: the app is gone

vars == <<elapsed, delta, spawnTimer, world, nextId, commands, shots, input, ran, pc, panicked>>

----------------------------------------------------------------------------
(* Bounds of the model *)

\* Spec takes frames while the elapsed time stays within MaxTime ticks
MaxTime == 10

\* SpecDuck takes frames while the elapsed time stays within MaxDuckTime ticks
MaxDuckTime == 79

\* SpecSpawner takes frames while the elapsed time stays within MaxSpawnTime ticks
\* and fewer than MaxSpawned ducks have been spawned since its first state
MaxSpawnTime == 116

MaxSpawned == 2

\* SpecUnit takes frames while the elapsed time stays within MaxUnitTime ticks
MaxUnitTime == 3

\* SpecFlight takes frames while the elapsed time stays within MaxFlightTime ticks
MaxFlightTime == 116

\* SpecFall takes clicks while the elapsed time is below MaxFallTime ticks, and
\* frames with time passing beyond it only while a duck is falling
MaxFallTime == 76

\* SpecAnim follows a duck that has flown for up to MaxAnimAge frames, while the
\* elapsed time stays within MaxAnimTime ticks
MaxAnimAge == 11

MaxAnimTime == 27

----------------------------------------------------------------------------
(* Units and program constants *)

TicksPerSec == 8

Px(n) == n * 1000000

\* Timer::from_seconds(1.0, TimerMode::Repeating)
SpawnDuration == 1 * TicksPerSec

\* Timer::from_seconds(0.5, TimerMode::Repeating)
AnimDuration == TicksPerSec \div 2

\* Time<Virtual> of DefaultPlugins clamps a frame's delta to 250 ms
MaxDelta == TicksPerSec \div 4

\* the logical window, 256 x 240
WindowWidth == 256

WindowHeight == 240

Systems == {"spawn_ducks", "animate_ducks", "move_ducks", "handle_mouse_clicks",
            "handle_shoot_duck", "handle_dying", "handle_dead"}

\* cursor positions (logical window pixels) the player clicks at
CursorSet == {<<228, 160>>, <<6, 22>>}

NoCursor == <<>>

NoInput == [pressed |-> FALSE, cursor |-> NoCursor]

Inputs == {[pressed |-> FALSE, cursor |-> NoCursor], [pressed |-> TRUE, cursor |-> NoCursor]}
          \cup {[pressed |-> TRUE, cursor |-> c] : c \in CursorSet}

\* round(1000 * sin(k/8)) for k = 0 .. 130
SinTable == <<
    0, 125, 247, 366, 479, 585, 682, 768, 841, 902, 949, 981, 997, 999, 984, 954,
    909, 850, 778, 694, 598, 494, 382, 263, 141, 17, -108, -231, -351, -465, -572, -669,
    -757, -832, -895, -944, -978, -996, -999, -987, -959, -916, -859, -788, -706, -612, -508, -397,
    -279, -158, -33, 92, 215, 335, 450, 558, 657, 746, 823, 887, 938, 974, 995, 1000,
    989, 963, 923, 867, 798, 717, 625, 522, 412, 295, 174, 50, -75, -199, -320, -435,
    -544, -644, -735, -814, -880, -932, -970, -993, -1000, -992, -968, -929, -875, -808, -729, -638,
    -537, -427, -311, -190, -66, 59, 183, 304, 420, 530, 632, 723, 804, 872, 926, 966,
    991, 1000, 994, 972, 935, 883, 818, 740, 650, 551, 442, 327, 206, 83, -42, -166,
    -288, -405, -516 >>

\* time.elapsed_secs().sin(), in thousandths
Sin(t) == SinTable[t + 1]

----------------------------------------------------------------------------
(* bevy Timer, repeating mode *)

NewTimer == [elapsed |-> 0, times |-> 0]

\* Timer::tick: accumulate, and on reaching the duration wrap and count the completions
TimerTick(tm, dt, duration) ==
    LET e == tm.elapsed + dt
    IN  IF e >= duration
        THEN [elapsed |-> e % duration, times |-> e \div duration]
        ELSE [elapsed |-> e, times |-> 0]

\* Timer::just_finished
JustFinished(tm) == tm.times > 0

\* Timer::reset
TimerReset(tm) == [elapsed |-> 0, times |-> 0]

----------------------------------------------------------------------------
(* spawn_ducks *)

\* SpawnX with half the window width for the 120.0
SpawnXWindow(s) == s * 128 * 1000

\* our_sins * 120.0
SpawnX(s) == s * 120 * 1000

\* SpawnSpeed with the sine not squared
SpawnSpeedLinear(s) == s * 80 * 1000 + Px(20)

\* (our_sins * our_sins) * 80.0 + 20.0
SpawnSpeed(s) == s * s * 80 + Px(20)

\* match our_sins { -1.0..0.0 => FlyingRight, 0.0..1.0 => FlyingLeft, _ => panic!() }
SpawnBehaviour(s) ==
    IF s >= -1000 /\ s < 0 THEN "FlyingRight"
    ELSE IF s >= 0 /\ s < 1000 THEN "FlyingLeft"
    ELSE "panic"

\* the bundle handed to commands.spawn
NewDuck(s) ==
    [x |-> SpawnX(s), y |-> Px(-40), behaviour |-> SpawnBehaviour(s), speed |-> SpawnSpeed(s),
     index |-> 0, flip_x |-> FALSE, timer |-> NewTimer, dead |-> FALSE]

NoCommands == [spawn |-> <<>>, dead |-> {}, despawn |-> {}]

spawn_ducks ==
    /\ pc = "update" /\ ~panicked /\ "spawn_ducks" \notin ran
    /\ ran' = ran \cup {"spawn_ducks"}
    /\ LET tm == TimerTick(spawnTimer, delta, SpawnDuration)
           s  == Sin(elapsed)
       IN  /\ spawnTimer' = tm
           /\ IF JustFinished(tm)
              THEN IF SpawnBehaviour(s) = "panic"
                   THEN panicked' = TRUE /\ UNCHANGED commands
                   ELSE /\ commands' = [commands EXCEPT !.spawn = Append(@, NewDuck(s))]
                        /\ UNCHANGED panicked
              ELSE UNCHANGED <<commands, panicked>>
    /\ UNCHANGED <<elapsed, delta, world, nextId, shots, input, pc>>

----------------------------------------------------------------------------
(* animate_ducks: every entity with a timer, a sprite and a Duck, Dead or not *)

\* NextFlyingIndex wrapping one frame late (> 3 for >= 3)
NextFlyingIndexLate(i) == IF i + 1 > 3 THEN 0 ELSE i + 1

\* atlas.index += 1; if atlas.index >= 3 { atlas.index = 0 }
NextFlyingIndex(i) == IF i + 1 >= 3 THEN 0 ELSE i + 1

\* AnimateDuck without the timer.reset() of the splat
AnimateDuckNoReset(d, dt) ==
    LET tm == TimerTick(d.timer, dt, AnimDuration)
    IN  IF d.behaviour = "FlyingLeft"
        THEN [d EXCEPT !.timer = tm, !.flip_x = TRUE,
                       !.index = IF JustFinished(tm) THEN NextFlyingIndex(@) ELSE @]
        ELSE IF d.behaviour = "FlyingRight"
        THEN [d EXCEPT !.timer = tm, !.flip_x = FALSE,
                       !.index = IF JustFinished(tm) THEN NextFlyingIndex(@) ELSE @]
        ELSE LET i2 == IF d.index < 3 THEN 3 ELSE d.index
             IN  IF JustFinished(tm)
                 THEN [d EXCEPT !.timer = tm, !.flip_x = ~d.flip_x,
                                !.index = IF i2 + 1 >= 4 THEN 4 ELSE i2 + 1]
                 ELSE [d EXCEPT !.timer = tm, !.index = i2]

AnimateDuck(d, dt) ==
    LET tm == TimerTick(d.timer, dt, AnimDuration)
    IN  IF d.behaviour = "FlyingLeft"
        THEN [d EXCEPT !.timer = tm, !.flip_x = TRUE,
                       !.index = IF JustFinished(tm) THEN NextFlyingIndex(@) ELSE @]
        ELSE IF d.behaviour = "FlyingRight"
        THEN [d EXCEPT !.timer = tm, !.flip_x = FALSE,
                       !.index = IF JustFinished(tm) THEN NextFlyingIndex(@) ELSE @]
        ELSE \* Dying
             LET splat == d.index < 3
                 tm2   == IF splat THEN TimerReset(tm) ELSE tm
                 i2    == IF splat THEN 3 ELSE d.index
             IN  IF JustFinished(tm2)
                 THEN [d EXCEPT !.timer = tm2, !.flip_x = ~d.flip_x,
                                !.index = IF i2 + 1 >= 4 THEN 4 ELSE i2 + 1]
                 ELSE [d EXCEPT !.timer = tm2, !.index = i2]

animate_ducks ==
    /\ pc = "update" /\ ~panicked /\ "animate_ducks" \notin ran
    /\ ran' = ran \cup {"animate_ducks"}
    /\ world' = [id \in DOMAIN world |-> AnimateDuck(world[id], delta)]
    /\ UNCHANGED <<elapsed, delta, spawnTimer, nextId, commands, shots, input, pc, panicked>>

----------------------------------------------------------------------------
(* move_ducks: Without<Dead> *)

\* MoveDuck without the `continue` for Dying ducks
MoveDuckNoSkip(d, dt) ==
    LET x_speed == IF d.behaviour = "FlyingRight" THEN d.speed ELSE -d.speed
        x1 == d.x + (x_speed * dt) \div TicksPerSec
        y1 == d.y + (d.speed * dt) \div TicksPerSec
        b1 == IF x1 > Px(120) THEN "FlyingLeft" ELSE d.behaviour
        b2 == IF x1 < Px(-120) THEN "FlyingRight" ELSE b1
    IN  [d EXCEPT !.x = x1, !.y = y1, !.behaviour = b2]

\* MoveDuck with the bound checks made before the move
MoveDuckFlipBeforeMove(d, dt) ==
    IF d.behaviour = "Dying" THEN d
    ELSE LET x_speed == IF d.behaviour = "FlyingRight" THEN d.speed ELSE -d.speed
             x1 == d.x + (x_speed * dt) \div TicksPerSec
             y1 == d.y + (d.speed * dt) \div TicksPerSec
             b1 == IF d.x > Px(120) THEN "FlyingLeft" ELSE d.behaviour
             b2 == IF d.x < Px(-120) THEN "FlyingRight" ELSE b1
         IN  [d EXCEPT !.x = x1, !.y = y1, !.behaviour = b2]

\* MoveDuck with the two turns swapped
MoveDuckTurnsSwapped(d, dt) ==
    IF d.behaviour = "Dying" THEN d
    ELSE LET x_speed == IF d.behaviour = "FlyingRight" THEN d.speed ELSE -d.speed
             x1 == d.x + (x_speed * dt) \div TicksPerSec
             y1 == d.y + (d.speed * dt) \div TicksPerSec
             b1 == IF x1 > Px(120) THEN "FlyingRight" ELSE d.behaviour
             b2 == IF x1 < Px(-120) THEN "FlyingLeft" ELSE b1
         IN  [d EXCEPT !.x = x1, !.y = y1, !.behaviour = b2]

\* MoveDuck with the bounds themselves flipping (>= 120.0, <= -120.0)
MoveDuckInclusive(d, dt) ==
    IF d.behaviour = "Dying" THEN d
    ELSE LET x_speed == IF d.behaviour = "FlyingRight" THEN d.speed ELSE -d.speed
             x1 == d.x + (x_speed * dt) \div TicksPerSec
             y1 == d.y + (d.speed * dt) \div TicksPerSec
             b1 == IF x1 >= Px(120) THEN "FlyingLeft" ELSE d.behaviour
             b2 == IF x1 <= Px(-120) THEN "FlyingRight" ELSE b1
         IN  [d EXCEPT !.x = x1, !.y = y1, !.behaviour = b2]

MoveDuck(d, dt) ==
    IF d.behaviour = "Dying" THEN d
    ELSE LET x_speed == IF d.behaviour = "FlyingRight" THEN d.speed ELSE -d.speed
             x1 == d.x + (x_speed * dt) \div TicksPerSec
             y1 == d.y + (d.speed * dt) \div TicksPerSec
             b1 == IF x1 > Px(120) THEN "FlyingLeft" ELSE d.behaviour
             b2 == IF x1 < Px(-120) THEN "FlyingRight" ELSE b1
         IN  [d EXCEPT !.x = x1, !.y = y1, !.behaviour = b2]

move_ducks ==
    /\ pc = "update" /\ ~panicked /\ "move_ducks" \notin ran
    /\ ran' = ran \cup {"move_ducks"}
    /\ world' = [id \in DOMAIN world |->
                    IF world[id].dead THEN world[id] ELSE MoveDuck(world[id], delta)]
    /\ UNCHANGED <<elapsed, delta, spawnTimer, nextId, commands, shots, input, pc, panicked>>

----------------------------------------------------------------------------
(* handle_mouse_clicks *)

\* Vec2::new(position.x - 256.0 / 2.0, 240.0 / 2.0 - position.y)
WorldPos(c) == <<Px(c[1]) - Px(WindowWidth) \div 2, Px(WindowHeight) \div 2 - Px(c[2])>>

handle_mouse_clicks ==
    /\ pc = "update" /\ ~panicked /\ "handle_mouse_clicks" \notin ran
    /\ ran' = ran \cup {"handle_mouse_clicks"}
    /\ shots' = IF input.pressed /\ input.cursor # NoCursor
                THEN Append(shots, [pos |-> WorldPos(input.cursor), age |-> 0])
                ELSE shots
    /\ UNCHANGED <<elapsed, delta, spawnTimer, world, nextId, commands, input, pc, panicked>>

----------------------------------------------------------------------------
(* handle_shoot_duck: every entity with a Transform and a Duck, Dead or not *)

Min(a, b) == IF a <= b THEN a ELSE b

Max(a, b) == IF a >= b THEN a ELSE b

\* Rect::new(pos.x - 16.0, pos.y - 16.0, pos.x + 16.0, pos.y + 16.0)
Hitbox(d) ==
    [min |-> <<Min(d.x - Px(16), d.x + Px(16)), Min(d.y - Px(16), d.y + Px(16))>>,
     max |-> <<Max(d.x - Px(16), d.x + Px(16)), Max(d.y - Px(16), d.y + Px(16))>>]

\* Rect::contains: min <= point <= max on both axes
Contains(r, p) ==
    /\ p[1] >= r.min[1] /\ p[1] <= r.max[1]
    /\ p[2] >= r.min[2] /\ p[2] <= r.max[2]

\* ShootDuck restarting the animation of the duck it hits
ShootDuckRestart(d, p) ==
    IF Contains(Hitbox(d), p)
    THEN [d EXCEPT !.behaviour = "Dying", !.index = 0, !.timer = TimerReset(@)]
    ELSE d

ShootDuck(d, p) ==
    IF Contains(Hitbox(d), p) THEN [d EXCEPT !.behaviour = "Dying"] ELSE d

\* ShootAll with a `break` after the first duck hit
ShootFirst(w, p) ==
    LET hit == {id \in DOMAIN w : Contains(Hitbox(w[id]), p)}
    IN  [id \in DOMAIN w |->
            IF id \in hit /\ \A other \in hit : id <= other
            THEN [w[id] EXCEPT !.behaviour = "Dying"] ELSE w[id]]

\* one Shoot event against every duck
ShootAll(w, p) == [id \in DOMAIN w |-> ShootDuck(w[id], p)]

RECURSIVE ReadShots(_, _)
ReadShots(w, evs) ==
    IF evs = <<>> THEN w ELSE ReadShots(ShootAll(w, Head(evs).pos), Tail(evs))

handle_shoot_duck ==
    /\ pc = "update" /\ ~panicked /\ "handle_shoot_duck" \notin ran
    /\ ran' = ran \cup {"handle_shoot_duck"}
    /\ world' = ReadShots(world, shots)
    /\ shots' = <<>>
    /\ UNCHANGED <<elapsed, delta, spawnTimer, nextId, commands, input, pc, panicked>>

----------------------------------------------------------------------------
(* handle_dying: Without<Dead> *)

\* DyingDuck falling at the duck's own speed
DyingDuckOwnSpeed(d, dt) ==
    IF d.behaviour = "Dying" THEN [d EXCEPT !.y = @ - (d.speed * dt) \div TicksPerSec] ELSE d

\* transform.translation.y -= 80.0 * time.delta_secs()
DyingDuck(d, dt) ==
    IF d.behaviour = "Dying" THEN [d EXCEPT !.y = @ - (Px(80) * dt) \div TicksPerSec] ELSE d

\* NewlyDead with the bottom of the scaled window, -240 * WINDOW_SCALE, for -240
NewlyDeadScaled(w, dt) ==
    {id \in DOMAIN w : /\ ~w[id].dead
                       /\ w[id].behaviour = "Dying"
                       /\ DyingDuck(w[id], dt).y < Px(-240) * 2}

\* the entities handle_dying inserts Dead on
NewlyDead(w, dt) ==
    {id \in DOMAIN w : /\ ~w[id].dead
                       /\ w[id].behaviour = "Dying"
                       /\ DyingDuck(w[id], dt).y < Px(-240)}

handle_dying ==
    /\ pc = "update" /\ ~panicked /\ "handle_dying" \notin ran
    /\ ran' = ran \cup {"handle_dying"}
    /\ world' = [id \in DOMAIN world |->
                    IF world[id].dead THEN world[id] ELSE DyingDuck(world[id], delta)]
    /\ commands' = [commands EXCEPT !.dead = @ \cup NewlyDead(world, delta)]
    /\ UNCHANGED <<elapsed, delta, spawnTimer, nextId, shots, input, pc, panicked>>

----------------------------------------------------------------------------
(* handle_dead: With<Dead> *)

\* DeadEntities with Without<Dead> for With<Dead>
DeadEntitiesWithout(w) == {id \in DOMAIN w : ~w[id].dead}

\* Query<Entity, With<Dead>>
DeadEntities(w) == {id \in DOMAIN w : w[id].dead}

handle_dead ==
    /\ pc = "update" /\ ~panicked /\ "handle_dead" \notin ran
    /\ ran' = ran \cup {"handle_dead"}
    /\ commands' = [commands EXCEPT !.despawn = @ \cup DeadEntities(world)]
    /\ UNCHANGED <<elapsed, delta, spawnTimer, world, nextId, shots, input, pc, panicked>>

----------------------------------------------------------------------------
(* The frame around the Update schedule *)

\* EventsUpdate with a single buffer, cleared every frame
EventsUpdateSingleBuffer(evs) == <<>>

\* Events::update: what was written in the previous frame is dropped, what was
\* written in this one is kept for one more frame.  (When no fixed-timestep
\* tick falls between two frames bevy keeps the buffers longer; dropping after
\* two frames is the earliest an event can go.)
EventsUpdate(evs) ==
    LET keep == SelectSeq(evs, LAMBDA e : e.age = 0)
    IN  [i \in 1..Len(keep) |-> [keep[i] EXCEPT !.age = 1]]

\* the Commands of the frame, applied when the schedule ends
ApplyCommands(w, cmds, nid) ==
    LET marked  == [id \in DOMAIN w |-> IF id \in cmds.dead THEN [w[id] EXCEPT !.dead = TRUE] ELSE w[id]]
        kept    == DOMAIN w \ cmds.despawn
        spawned == {nid + i - 1 : i \in 1..Len(cmds.spawn)}
    IN  [id \in kept \cup spawned |->
            IF id \in kept THEN marked[id] ELSE cmds.spawn[id - nid + 1]]

\* First: the clock advances, the event buffers rotate, the input is sampled
FirstFrame(limit, ins) ==
    /\ pc = "first" /\ ~panicked
    /\ \E dt \in 0..MaxDelta, in \in ins :
          /\ elapsed + dt <= limit
          /\ elapsed' = elapsed + dt
          /\ delta' = dt
          /\ input' = in
    /\ shots' = EventsUpdate(shots)
    /\ pc' = "update"
    /\ UNCHANGED <<spawnTimer, world, nextId, commands, ran, panicked>>

\* the end of the Update schedule, once the systems in sys have run
ApplyDeferred(sys) ==
    /\ pc = "update" /\ ~panicked /\ ran = sys
    /\ world' = ApplyCommands(world, commands, nextId)
    /\ nextId' = nextId + Len(commands.spawn)
    /\ commands' = NoCommands
    /\ ran' = {}
    /\ pc' = "first"
    /\ UNCHANGED <<elapsed, delta, spawnTimer, shots, input, panicked>>

----------------------------------------------------------------------------
(* The game: from OnEnter(InGame), every frame runs the seven systems *)

Init ==
    /\ elapsed = 0
    /\ delta = 0
    /\ spawnTimer = NewTimer
    /\ world = <<>>
    /\ nextId = 1
    /\ commands = NoCommands
    /\ shots = <<>>
    /\ input = NoInput
    /\ ran = {}
    /\ pc = "first"
    /\ panicked = FALSE

First == FirstFrame(MaxTime, Inputs)

EndFrame == ApplyDeferred(Systems)

Next ==
    \/ First
    \/ spawn_ducks
    \/ animate_ducks
    \/ move_ducks
    \/ handle_mouse_clicks
    \/ handle_shoot_duck
    \/ handle_dying
    \/ handle_dead
    \/ EndFrame

Spec == Init /\ [][Next]_vars

----------------------------------------------------------------------------
(* The spawner alone.  spawn_ducks reads the clock and its timer and nothing *)
(* of the world, so its runs are the runs of the game with the other systems *)
(* left out.  A run starts at any instant t0 of the game: the timer has      *)
(* run since time 0, so it holds t0 modulo its duration, and one entity id   *)
(* has been used per completed second.  The instant 0 is the state of Init.  *)

InitSpawner ==
    /\ elapsed \in 0..MaxSpawnTime
    /\ delta = 0
    /\ spawnTimer = [elapsed |-> elapsed % SpawnDuration, times |-> 0]
    /\ world = <<>>
    /\ nextId = elapsed \div SpawnDuration + 1
    /\ commands = NoCommands
    /\ shots = <<>>
    /\ input = NoInput
    /\ ran = {}
    /\ pc = "first"
    /\ panicked = FALSE

FirstSpawner ==
    /\ Cardinality(DOMAIN world) < MaxSpawned
    /\ FirstFrame(MaxSpawnTime, {NoInput})

EndFrameSpawner == ApplyDeferred({"spawn_ducks"})

NextSpawner ==
    \/ FirstSpawner
    \/ spawn_ducks
    \/ EndFrameSpawner

SpecSpawner == InitSpawner /\ [][NextSpawner]_vars

----------------------------------------------------------------------------
(* One duck late in its life.  No system's update of a duck reads another   *)
(* duck, so a duck is followed alone.  Its state is the one the systems give *)
(* it in the run of 1-tick frames in which it is spawned at the instant t0,  *)
(* flies for n frames and, where hit is set, is then shot and falls for m    *)
(* frames.                                                                   *)

\* n frames of one tick of a flying duck.  A duck that carries Dead is on its
\* way out and is not followed; the frames are taken half and half, each half
\* from a duck already computed, which keeps the evaluation shallow.
RECURSIVE Fly(_, _)
Fly(d, n) ==
    IF n = 0 \/ d.dead THEN d
    ELSE IF n = 1 THEN MoveDuck(AnimateDuck(d, 1), 1)
    ELSE Fly(Fly(d, n \div 2), n - n \div 2)

\* m frames of one tick of a Dying duck
RECURSIVE Fall(_, _)
Fall(d, m) ==
    IF m = 0 \/ d.dead THEN d
    ELSE IF m = 1 THEN DyingDuck(AnimateDuck(d, 1), 1)
    ELSE Fall(Fall(d, m \div 2), m - m \div 2)

DuckAfter(h) ==
    LET flown == Fly(NewDuck(Sin(h.t0)), h.n)
    IN  IF h.hit THEN Fall(ShootDuck(flown, <<flown.x, flown.y>>), h.m) ELSE flown

\* the duck of second 3 about to cross x = -120 on screen; the duck of second 7,
\* shot in its first frame, about to fall below y = -240
Histories ==
    {[t0 |-> 24, n |-> 50, hit |-> FALSE, m |-> 0],
     [t0 |-> 56, n |-> 1, hit |-> TRUE, m |-> 19]}

InitDuck ==
    \E h \in Histories :
        /\ elapsed = h.t0 + h.n + h.m
        /\ delta = 1
        /\ spawnTimer = [elapsed |-> elapsed % SpawnDuration, times |-> 0]
        /\ world = (h.t0 \div SpawnDuration :> DuckAfter(h))
        /\ nextId = elapsed \div SpawnDuration + 1
        /\ commands = NoCommands
        /\ shots = <<>>
        /\ input = NoInput
        /\ ran = {}
        /\ pc = "first"
        /\ panicked = FALSE

FirstDuck == FirstFrame(MaxDuckTime, Inputs)

NextDuck ==
    \/ FirstDuck
    \/ spawn_ducks
    \/ animate_ducks
    \/ move_ducks
    \/ handle_mouse_clicks
    \/ handle_shoot_duck
    \/ handle_dying
    \/ handle_dead
    \/ EndFrame

SpecDuck == InitDuck /\ [][NextDuck]_vars

----------------------------------------------------------------------------
(* The per-duck rules on drawn inputs.  Two ducks at chosen places, one      *)
(* click of the player in the first frame, and the three systems that read   *)
(* or write positions, behaviours and Shoot events.                          *)

UnitDuck(x, b, v) ==
    [x |-> x, y |-> 0, behaviour |-> b, speed |-> v,
     index |-> IF b = "Dying" THEN 4 ELSE 0, flip_x |-> FALSE, timer |-> NewTimer, dead |-> FALSE]

UnitXs == {Px(0), Px(115), Px(120), Px(125), Px(-115), Px(-120), Px(-125)}

\* the cursor at world (15,15), (17,0), (16,16), (-16,-16), (26,-16), (-17,0)
UnitCursors == {<<143, 105>>, <<145, 120>>, <<144, 104>>, <<112, 136>>, <<154, 136>>, <<111, 120>>}

UnitSystems == {"move_ducks", "handle_mouse_clicks", "handle_shoot_duck"}

InitUnit ==
    \E x \in UnitXs, b \in {"FlyingLeft", "FlyingRight", "Dying"}, v \in {Px(20), Px(100)},
       c \in UnitCursors, dt \in 1..MaxDelta :
        /\ elapsed = dt
        /\ delta = dt
        /\ spawnTimer = [elapsed |-> dt, times |-> 0]
        /\ world = (1 :> UnitDuck(x, b, v)) @@ (2 :> UnitDuck(Px(10), "FlyingLeft", Px(20)))
        /\ nextId = 3
        /\ commands = NoCommands
        /\ shots = <<>>
        /\ input = [pressed |-> TRUE, cursor |-> c]
        /\ ran = {}
        /\ pc = "update"
        /\ panicked = FALSE

FirstUnit == FirstFrame(MaxUnitTime, {NoInput})

EndFrameUnit == ApplyDeferred(UnitSystems)

NextUnit ==
    \/ FirstUnit
    \/ move_ducks
    \/ handle_mouse_clicks
    \/ handle_shoot_duck
    \/ EndFrameUnit

SpecUnit == InitUnit /\ [][NextUnit]_vars

----------------------------------------------------------------------------
(* The first duck in flight, at any phase of its wing cycle, with a player  *)
(* who clicks on it: the systems that animate, move and shoot it.            *)

\* the window pixel under the centre of a duck: the cursor whose world position
\* handle_mouse_clicks computes to be (within a pixel) the duck's
CursorOn(d) == <<d.x \div Px(1) + WindowWidth \div 2, WindowHeight \div 2 - d.y \div Px(1)>>

AnimSystems == {"animate_ducks", "move_ducks", "handle_mouse_clicks", "handle_shoot_duck"}

InitAnim ==
    \E n \in (MaxAnimAge - 5)..MaxAnimAge :
        /\ elapsed = SpawnDuration + n
        /\ delta = 1
        /\ spawnTimer = [elapsed |-> elapsed % SpawnDuration, times |-> 0]
        /\ world = (1 :> Fly(NewDuck(Sin(SpawnDuration)), n))
        /\ nextId = elapsed \div SpawnDuration + 1
        /\ commands = NoCommands
        /\ shots = <<>>
        /\ input = NoInput
        /\ ran = {}
        /\ pc = "first"
        /\ panicked = FALSE

FirstAnim ==
    FirstFrame(MaxAnimTime,
               {NoInput} \cup {[pressed |-> TRUE, cursor |-> CursorOn(world[id])] : id \in DOMAIN world})

EndFrameAnim == ApplyDeferred(AnimSystems)

NextAnim ==
    \/ FirstAnim
    \/ animate_ducks
    \/ move_ducks
    \/ handle_mouse_clicks
    \/ handle_shoot_duck
    \/ EndFrameAnim

SpecAnim == InitAnim /\ [][NextAnim]_vars

----------------------------------------------------------------------------
(* The game with a player who never clicks: ducks are spawned and fly, and   *)
(* the two systems of the death sweep find nothing to do.  A run starts at   *)
(* the instant FlightStart, as the runs of the spawner do, and passes the    *)
(* spawns of 8.0 s (sine 0.989, at the right bound) and 11.0 s (sine -1.000, *)
(* on the left bound) and the flights of these ducks across the playfield.   *)

FlightStart == 62

FlightSystems == {"spawn_ducks", "move_ducks", "handle_dying", "handle_dead"}

InitFlight ==
    /\ elapsed = FlightStart
    /\ delta = 0
    /\ spawnTimer = [elapsed |-> elapsed % SpawnDuration, times |-> 0]
    /\ world = <<>>
    /\ nextId = elapsed \div SpawnDuration + 1
    /\ commands = NoCommands
    /\ shots = <<>>
    /\ input = NoInput
    /\ ran = {}
    /\ pc = "first"
    /\ panicked = FALSE

FirstFlight == FirstFrame(MaxFlightTime, {NoInput})

EndFrameFlight == ApplyDeferred(FlightSystems)

NextFlight ==
    \/ FirstFlight
    \/ spawn_ducks
    \/ move_ducks
    \/ handle_dying
    \/ handle_dead
    \/ EndFrameFlight

SpecFlight == InitFlight /\ [][NextFlight]_vars

----------------------------------------------------------------------------
(* A duck to the end of its life.  The runs begin as those of SpecDuck do,   *)
(* with no spawner and no animation (neither reads or writes a duck's        *)
(* height, behaviour or Dead marker); the player clicks while the elapsed    *)
(* time is below MaxFallTime, and time goes on passing for as long as a duck *)
(* is falling.                                                               *)
(* The executor runs every system of a frame and ends the frame, and frames  *)
(* in which time passes keep occurring.                                      *)

\* the ducks handle_dying moves
Falling(w) == {id \in DOMAIN w : w[id].behaviour = "Dying" /\ ~w[id].dead}

FallSystems == Systems \ {"spawn_ducks", "animate_ducks"}

FirstFall ==
    FirstFrame(IF Falling(world) # {} THEN elapsed + MaxDelta ELSE Max(MaxFallTime, elapsed),
               IF elapsed < MaxFallTime THEN Inputs ELSE {NoInput})

\* a frame in which time passes
TickFall == FirstFall /\ delta' > 0

EndFrameFall == ApplyDeferred(FallSystems)

NextFall ==
    \/ FirstFall
    \/ move_ducks
    \/ handle_mouse_clicks
    \/ handle_shoot_duck
    \/ handle_dying
    \/ handle_dead
    \/ EndFrameFall

SpecFall == InitDuck /\ [][NextFall]_vars /\ WF_vars(NextFall) /\ SF_vars(TickFall)

----------------------------------------------------------------------------
(* Properties *)

\* a step of the named system
Ran(sys) == sys \notin ran /\ sys \in ran'

\* the ducks that exist before and after a step
Surviving == DOMAIN world \cap DOMAIN world'

\* C1: a duck whose behaviour is Dying never has another behaviour again, whatever
\* system runs; the bound checks of move_ducks leave a Dying duck Dying.
C1_DyingAbsorbing ==
    [][\A id \in Surviving :
          world[id].behaviour = "Dying" => world'[id].behaviour = "Dying"]_vars

\* move_ducks has run, in a frame with time passing, over a duck that was Dying
\* when the frame began and lies beyond the left bound
C1_Witness ==
    /\ pc = "update" /\ delta > 0
    /\ "move_ducks" \in ran /\ "handle_shoot_duck" \notin ran
    /\ \E id \in DOMAIN world :
          /\ world[id].behaviour = "Dying" /\ ~world[id].dead
          /\ world[id].x < Px(-120)

\* what C2 lists of a duck: position, behaviour, frame index, mirror flag and the
\* time its animation timer has accumulated
Visible(d) == <<d.x, d.y, d.behaviour, d.index, d.flip_x, d.timer.elapsed>>

\* C2: once a duck carries Dead, no step changes its position, behaviour, frame
\* index, mirror flag or animation timer; it can only be removed.
C2_DeadNeverMutated ==
    [][\A id \in Surviving : world[id].dead => Visible(world'[id]) = Visible(world[id])]_vars

\* C3, in a state: a duck below y = -240 carries Dead or has the insertion of Dead
\* queued by the update that took it there, and once handle_dead has run in a
\* frame every duck carrying Dead has its removal queued.
C3_State ==
    \A id \in DOMAIN world :
        /\ world[id].y < Px(-240) => (world[id].dead \/ id \in commands.dead)
        /\ (world[id].dead /\ pc = "update" /\ "handle_dead" \in ran) => id \in commands.despawn

\* C3, in a step: the end of a frame marks the ducks queued for Dead and removes
\* the ducks that carried Dead, and an entity that is gone stays gone.
C3_Step ==
    /\ (pc = "update" /\ pc' = "first") =>
          \A id \in DOMAIN world :
              /\ world[id].dead => id \notin DOMAIN world'
              /\ (id \in commands.dead /\ id \in DOMAIN world') => world'[id].dead
    /\ \A id \in 1..(nextId - 1) : id \notin DOMAIN world => id \notin DOMAIN world'

\* C3: a duck that falls below y = -240 is marked dead by the end of that frame and
\* removed by the end of the next, and a removed duck never exists again.
C3_FallenDucksRemoved == []C3_State /\ [][C3_Step]_vars

\* the duck that was falling has been marked and removed
C3_Witness ==
    /\ pc = "first" /\ elapsed >= 78
    /\ DOMAIN world \cap {3, 7} = {}

C4_Inside(d, p) ==
    /\ d.x - Px(16) <= p[1] /\ p[1] <= d.x + Px(16)
    /\ d.y - Px(16) <= p[2] /\ p[2] <= d.y + Px(16)

SpawnTicked == pc = "first" \/ "spawn_ducks" \in ran

\* C5: once ticked, the repeating spawn timer holds the elapsed time modulo its
\* duration, reports just-finished exactly when the tick crossed a multiple of
\* the duration, once, and the ducks spawned so far number floor(T / 1.0).
C5_OncePerPeriod ==
    SpawnTicked =>
        /\ spawnTimer.elapsed = elapsed % SpawnDuration
        /\ JustFinished(spawnTimer) <=>
              (elapsed \div SpawnDuration > (elapsed - delta) \div SpawnDuration)
        /\ spawnTimer.times <= 1
        /\ (nextId - 1) + Len(commands.spawn) = elapsed \div SpawnDuration

\* the sine a duck was spawned with, from where it was spawned
SineOf(d) == d.x \div 120000

\* C6: every duck spawned, queued or in the world, has speed s*s*80 + 20 for the
\* sine s it was spawned with, which lies within [20, 100].
C6_SpeedRange ==
    \A d \in {world[id] : id \in DOMAIN world} \cup {commands.spawn[i] : i \in 1..Len(commands.spawn)} :
        /\ d.speed = SineOf(d) * SineOf(d) * 80 + Px(20)
        /\ Px(20) <= d.speed /\ d.speed <= Px(100)

\* a duck spawned with sine -1, at the top of the range
C6_Witness ==
    \E id \in DOMAIN world : world[id].x = Px(-120) /\ world[id].speed = Px(100)

\* C7: every completion of the spawn timer queues a duck, FlyingRight for a
\* negative sine and FlyingLeft otherwise, and no state is fatal.
C7_SpawnTotal ==
    /\ ~panicked
    /\ (pc = "update" /\ "spawn_ducks" \in ran /\ JustFinished(spawnTimer)) =>
          /\ Len(commands.spawn) = 1
          /\ commands.spawn[1].behaviour =
                IF Sin(elapsed) < 0 THEN "FlyingRight" ELSE "FlyingLeft"

\* C8: spawn_ducks changes no duck, queues exactly one duck in a frame in which
\* its timer has just finished, and queues nothing in any other frame.
C8_SpawnerFrameEffect ==
    [][Ran("spawn_ducks") =>
          /\ world' = world
          /\ commands'.dead = commands.dead /\ commands'.despawn = commands.despawn
          /\ Len(commands'.spawn) =
                Len(commands.spawn) + (IF JustFinished(spawnTimer') THEN 1 ELSE 0)]_vars

\* the frame that ended was the one in which the spawn timer finished
SpawnFrameEnded == pc = "first" /\ JustFinished(spawnTimer)

\* the first second: no duck before 1.0 s, one duck from then on, and the duck
\* of a spawning frame is at x = sin(T) * 120, y = -40, frame 0, flying right for
\* a negative sine and left otherwise
FirstSpawn ==
    /\ elapsed < SpawnDuration => (world = <<>> /\ commands.spawn = <<>>)
    /\ (pc = "first" /\ elapsed >= SpawnDuration /\ elapsed < 2 * SpawnDuration) =>
          DOMAIN world = {1}
    /\ SpawnFrameEnded =>
          /\ nextId - 1 \in DOMAIN world
          /\ LET d == world[nextId - 1]
             IN  /\ d.x = Sin(elapsed) * 120000
                 /\ d.y = Px(-40)
                 /\ d.index = 0
                 /\ d.behaviour = IF Sin(elapsed) < 0 THEN "FlyingRight" ELSE "FlyingLeft"

\* x is the stated number of micro-pixels, to the 0.06 pixel that the sine in
\* thousandths resolves
About(x, stated) == x - stated <= 60000 /\ stated - x <= 60000

\* C9 as stated: ..., and the duck of the frame at exactly 1.0 s is FlyingLeft at
\* x = sin(1.0) * 120, about 101.07.
C9_FirstSpawnAsStated ==
    /\ FirstSpawn
    /\ (SpawnFrameEnded /\ elapsed = SpawnDuration) =>
          (world[1].behaviour = "FlyingLeft" /\ About(world[1].x, 101070000))

\* C9 as amended: ..., and the duck of the frame at exactly 1.0 s is FlyingLeft at
\* x = sin(1.0) * 120, about 100.98.
C9_FirstSpawn ==
    /\ FirstSpawn
    /\ (SpawnFrameEnded /\ elapsed = SpawnDuration) =>
          (world[1].behaviour = "FlyingLeft" /\ About(world[1].x, 100976000))

\* the frame at exactly 1.0 s has ended and its duck exists
C9_Witness ==
    /\ SpawnFrameEnded /\ elapsed = SpawnDuration
    /\ DOMAIN world = {1} /\ world[1].y = Px(-40)

----------------------------------------------------------------------------
(* Scheduling and events *)

\* the stages in the order stated: Spawner, Motion Updater, Animation Updater,
\* Hit Resolution, Death Sweep (falling and marking, then removal)
StatedOrder ==
    <<"spawn_ducks", "move_ducks", "animate_ducks", "handle_shoot_duck", "handle_dying", "handle_dead">>

\* C11: in every frame a stage runs only when exactly the stages stated before
\* it have run: Spawner, Motion, Animation, Hit Resolution, falling, removal.
C11_FixedStageOrder ==
    [][\A i \in 1..Len(StatedOrder) :
          Ran(StatedOrder[i]) =>
              ran \cap {StatedOrder[j] : j \in 1..Len(StatedOrder)} =
                  {StatedOrder[j] : j \in 1..(i - 1)}]_vars

\* C12, in a state: a Shoot event not yet read was written in the running frame,
\* or in the frame before it and handle_shoot_duck has not run since.
C12_State ==
    \A i \in 1..Len(shots) :
        \/ shots[i].age = 0
        \/ shots[i].age = 1 /\ pc = "update" /\ "handle_shoot_duck" \notin ran

\* C12, in a step: a press with a cursor position writes one Shoot event;
\* handle_shoot_duck resolves every unread event against the ducks and leaves
\* none unread; the start of a frame drops no unread event; nothing else
\* touches the events.
C12_Step ==
    /\ Ran("handle_mouse_clicks") =>
          Len(shots') = Len(shots) + (IF input.pressed /\ input.cursor # NoCursor THEN 1 ELSE 0)
    /\ Ran("handle_shoot_duck") =>
          /\ shots' = <<>>
          /\ \A i \in 1..Len(shots), id \in DOMAIN world :
                C4_Inside(world[id], shots[i].pos) => world'[id].behaviour = "Dying"
    /\ (pc = "first" /\ pc' = "update") =>
          /\ Len(shots') = Len(shots)
          /\ \A i \in 1..Len(shots) : shots'[i].pos = shots[i].pos
    /\ (pc = "update" /\ ~Ran("handle_mouse_clicks") /\ ~Ran("handle_shoot_duck")) =>
          shots' = shots

\* C12: every Shoot event written is read by handle_shoot_duck once, in the frame
\* it was written in or in the next, and is gone after that.
C12_ShotConsumedOnce == []C12_State /\ [][C12_Step]_vars

\* the click of the first frame was written after handle_shoot_duck had run and
\* has been resolved in the second frame: the duck at (10,0) flew through both
\* frames before it was hit
C12_Witness ==
    /\ pc = "update" /\ ~input.pressed /\ delta > 0
    /\ "handle_shoot_duck" \in ran /\ shots = <<>>
    /\ world[2].behaviour = "Dying"
    /\ world[2].x = Px(10) - (Px(20) * elapsed) \div TicksPerSec

\* C13: move_ducks moves a live flying duck by speed * dt to the right when it
\* was FlyingRight and to the left when FlyingLeft, and up by speed * dt; then
\* it is FlyingLeft if its new x > 120, FlyingRight if its new x < -120, and as
\* it was for -120 <= x <= 120.
C13_MotionUpdate ==
    [][Ran("move_ducks") =>
          \A id \in DOMAIN world :
              (~world[id].dead /\ world[id].behaviour # "Dying") =>
                  LET d    == world[id]
                      step == (d.speed * delta) \div TicksPerSec
                      nx   == IF d.behaviour = "FlyingRight" THEN d.x + step ELSE d.x - step
                  IN  /\ world'[id].x = nx
                      /\ world'[id].y = d.y + step
                      /\ world'[id].behaviour =
                            IF nx > Px(120) THEN "FlyingLeft"
                            ELSE IF nx < Px(-120) THEN "FlyingRight"
                            ELSE d.behaviour]_vars

\* a FlyingRight duck has arrived at exactly x = 120 and is still FlyingRight
C13_Witness ==
    /\ pc = "update" /\ input.pressed /\ "move_ducks" \in ran
    /\ world[1].x = Px(120) /\ world[1].y > 0 /\ world[1].behaviour = "FlyingRight"

----------------------------------------------------------------------------
(* Animation and falling *)

\* the animation timer of d completes in a tick of dt
Completes(d, dt) == d.timer.elapsed + dt >= AnimDuration

C14_State ==
    \A id \in DOMAIN world :
        /\ world[id].index \in 0..4
        /\ world[id].behaviour # "Dying" => world[id].index \in 0..2

C14_Step ==
    \A id \in Surviving :
        LET d == world[id]
            i == world[id].index
            j == world'[id].index
        IN  /\ (Ran("animate_ducks") /\ d.behaviour # "Dying") =>
                  j = IF Completes(d, delta) THEN (i + 1) % 3 ELSE i
            /\ (Ran("animate_ducks") /\ d.behaviour = "Dying" /\ i >= 3) =>
                  j = IF Completes(d, delta) /\ i = 3 THEN 4 ELSE i
            /\ ~Ran("animate_ducks") => j = i
            /\ i >= 3 => j >= i

\* C14: a duck's frame index is within 0..4; a flying duck's is within 0..2 and
\* goes from i to (i + 1) mod 3 at each completion of its animation timer; from 3
\* on it never decreases, goes up by one at a completion and stays at 4.
C14_FrameIndex == []C14_State /\ [][C14_Step]_vars

\* the duck has flown through the wrap of its wing cycle, from frame 2 to frame
\* 0, has then been shot, has shown frame 3 and is at frame 4
C14_Witness ==
    /\ elapsed >= 3 * SpawnDuration + 2
    /\ world[1].behaviour = "Dying" /\ world[1].index = 4
    /\ world[1].x <= Fly(NewDuck(Sin(SpawnDuration)), 14).x

\* C15: the animate_ducks that finds a Dying duck with index < 3 leaves it at
\* index 3 with its timer reset and not finished, whatever the tick did; from
\* then on only animate_ducks touches index and timer, the timer accumulates the
\* deltas, and index 3 becomes 4 in the update in which they reach 0.5 s.
C15_SplatOneShot ==
    [][\A id \in Surviving :
          LET d == world[id]
              e == world'[id]
          IN  world[id].behaviour = "Dying" =>
                /\ (Ran("animate_ducks") /\ d.index < 3) =>
                      (e.index = 3 /\ e.timer.elapsed = 0 /\ ~JustFinished(e.timer))
                /\ (Ran("animate_ducks") /\ d.index = 3) =>
                      /\ e.index = IF Completes(d, delta) THEN 4 ELSE 3
                      /\ e.index = 3 => e.timer.elapsed = d.timer.elapsed + delta
                /\ (~Ran("animate_ducks") /\ e.behaviour = "Dying") =>
                      (e.index = d.index /\ e.timer = d.timer)]_vars

\* the duck spawned at 3.0 s, whose timer completes at 9.5 s, was found Dying by
\* the animate_ducks of the frame at 9.5 s: it is at index 3 with its timer reset
C15_Witness ==
    /\ pc = "update" /\ elapsed = 76 /\ delta > 0 /\ "animate_ducks" \in ran
    /\ 3 \in DOMAIN world
    /\ world[3].behaviour = "Dying" /\ world[3].index = 3
    /\ world[3].timer = NewTimer

\* C16: no step changes a duck's speed; a live Dying duck keeps its x, and its y
\* changes only in handle_dying, by -80 * dt; move_ducks leaves a Dying duck's
\* x, y and behaviour alone; handle_dying leaves a flying duck where it is.
C16_DyingFrameEffect ==
    [][\A id \in Surviving :
          LET d == world[id]
              e == world'[id]
          IN  /\ e.speed = d.speed
              /\ (d.behaviour = "Dying" /\ ~d.dead) =>
                    /\ e.x = d.x
                    /\ e.y <= d.y
                    /\ e.y = IF Ran("handle_dying")
                             THEN d.y - (Px(80) * delta) \div TicksPerSec ELSE d.y
              /\ (Ran("move_ducks") /\ d.behaviour = "Dying") =>
                    (e.x = d.x /\ e.y = d.y /\ e.behaviour = d.behaviour)
              /\ (Ran("handle_dying") /\ d.behaviour # "Dying") =>
                    (e.x = d.x /\ e.y = d.y)]_vars

\* the duck that was falling when the run began has fallen by 80 * dt more, with
\* a speed of its own that is not 80
C16_Witness ==
    LET h == CHOOSE g \in Histories : g.hit
    IN  /\ pc = "update" /\ delta > 0 /\ "handle_dying" \in ran
        /\ 7 \in DOMAIN world
        /\ ~world[7].dead /\ world[7].speed # Px(80)
        /\ world[7].y = DuckAfter(h).y - (Px(80) * (elapsed - (h.t0 + h.n + h.m))) \div TicksPerSec

----------------------------------------------------------------------------
(* Ducks that are never hit *)

\* the ducks in the world and the ducks queued to be spawned
Ducks == Cardinality(DOMAIN world) + Len(commands.spawn)

C17_State ==
    \A id \in DOMAIN world :
        (world[id].dead \/ id \in commands.dead \/ id \in commands.despawn) =>
            world[id].behaviour = "Dying"

C17_Step ==
    /\ \A id \in DOMAIN world :
          world[id].behaviour # "Dying" =>
              /\ id \in DOMAIN world'
              /\ world'[id].y >= world[id].y
              /\ ~world'[id].dead
    /\ (\A id \in DOMAIN world : world[id].behaviour # "Dying") =>
          /\ Ducks' >= Ducks
          /\ (Ran("spawn_ducks") /\ JustFinished(spawnTimer')) => Ducks' = Ducks + 1

\* C17: only a Dying duck is marked dead or removed; a flying duck's y never
\* decreases and it is never marked or removed; while no duck has been hit the
\* number of ducks never decreases and grows by one at every completion of the
\* spawn timer.
C17_UnhitDucksStay == []C17_State /\ [][C17_Step]_vars

\* C20, in a state: no duck is FlyingRight beyond x = 120 or FlyingLeft beyond
\* x = -120, and a duck queued to be spawned is within [-120, 120].
C20_State ==
    /\ \A id \in DOMAIN world :
          /\ ~(world[id].behaviour = "FlyingRight" /\ world[id].x > Px(120))
          /\ ~(world[id].behaviour = "FlyingLeft" /\ world[id].x < Px(-120))
    /\ \A i \in 1..Len(commands.spawn) :
          /\ Px(-120) <= commands.spawn[i].x /\ commands.spawn[i].x <= Px(120)
          /\ ~(commands.spawn[i].behaviour = "FlyingRight" /\ commands.spawn[i].x > Px(120))
          /\ ~(commands.spawn[i].behaviour = "FlyingLeft" /\ commands.spawn[i].x < Px(-120))

\* C20, in a step: a Motion update with time passing moves a live flying duck
\* that is beyond a bound back toward the playfield.
C20_Step ==
    (Ran("move_ducks") /\ delta > 0) =>
        \A id \in DOMAIN world :
            (~world[id].dead /\ world[id].behaviour # "Dying") =>
                /\ world[id].x > Px(120) => world'[id].x < world[id].x
                /\ world[id].x < Px(-120) => world'[id].x > world[id].x

\* C20: direction and position agree in every state, ducks are spawned within
\* the bounds, and a flying duck beyond a bound flies back.
C20_DirectionPosition == []C20_State /\ [][C20_Step]_vars

\* the duck spawned on the left bound at 11.0 s with speed 100 flew right for 21
\* ticks to x = 142.5, was turned there, and has flown one tick back to x = 130
C20_Witness ==
    /\ pc = "update" /\ "move_ducks" \in ran
    /\ \E id \in DOMAIN world :
          /\ world[id].speed = Px(100) /\ world[id].behaviour = "FlyingLeft"
          /\ world[id].x = Px(130)
          /\ world[id].y = Px(-40) + 22 * 12500000

----------------------------------------------------------------------------
(* Hits on Dying ducks, and the end of a Dying duck *)

\* C19: handle_shoot_duck leaves a duck that is already Dying exactly as it is,
\* frame index, animation timer and position included, and resolving the same
\* Shoot events once more changes nothing.
C19_HitIdempotent ==
    [][Ran("handle_shoot_duck") =>
          /\ \A id \in DOMAIN world :
                world[id].behaviour = "Dying" => world'[id] = world[id]
          /\ ReadShots(world', shots) = world']_vars

\* the duck, Dying and showing frame 3 since an earlier frame, its timer part of
\* the way, has been clicked on again and the click has been resolved
C19_Witness ==
    /\ pc = "update" /\ input.pressed /\ input.cursor = CursorOn(world[1])
    /\ {"handle_mouse_clicks", "handle_shoot_duck"} \subseteq ran
    /\ "animate_ducks" \notin ran /\ shots = <<>>
    /\ world[1].behaviour = "Dying" /\ world[1].index = 3
    /\ world[1].timer.elapsed > 0

\* the ducks followed to the end of their lives
FallIds == {h.t0 \div SpawnDuration : h \in Histories}

\* C18, liveness: a followed duck that is Dying is eventually out of the world
C18_Live ==
    \A id \in FallIds :
        (id \in DOMAIN world /\ world[id].behaviour = "Dying") ~> (id \notin DOMAIN world)

\* C18, in a state: no frame requests both the Dead marker and the despawn of
\* one duck (handle_dying sees Without<Dead>, handle_dead sees With<Dead>)
C18_State == commands.dead \cap commands.despawn = {}

\* C18, in a step: a duck leaves the world only when it carries Dead, a duck
\* whose marker is requested is not removed by that step, and a duck that has
\* left the world never returns
C18_Step ==
    /\ \A id \in DOMAIN world \ DOMAIN world' : world[id].dead
    /\ \A id \in commands.dead : id \in DOMAIN world'
    /\ \A id \in 1..(nextId - 1) : id \notin DOMAIN world => id \notin DOMAIN world'

\* C18: with frames in which time passes occurring again and again, a duck that
\* is Dying is eventually removed; only a duck that carries Dead is removed, so
\* it is marked first and removed no earlier than the frame after the one that
\* requested the marker; and a duck that is gone stays gone.
C18_DyingEventuallyRemoved == C18_Live /\ []C18_State /\ [][C18_Step]_vars

\* the duck that was flying at 98 pixels above the centre has been shot, has
\* fallen all the way, and has been removed
C18_Witness ==
    /\ pc = "first" /\ world = <<>> /\ elapsed > MaxFallTime + 4 * SpawnDuration

====
